---- MODULE Spec2Model ----
(***************************************************************************)
(* Model of the stuckAI trading console front end: the persisted session   *)
(* store (localStorage), the layout's login / account state and navigation *)
(* guard, the login form, the account screen, the auto-trade screen of the *)
(* newer tree and the monolithic Dashboard / Home of the older tree, and   *)
(* the requests they have in flight.  The backend is a black box that      *)
(* answers or rejects each request; the network may lose a request or a    *)
(* response.                                                               *)
(***************************************************************************)
EXTENDS Integers, Sequences, FiniteSets, Bags, TLC

\* A handler that leaves more requests in flight and timers pending than
\* there were before it runs only while fewer than MaxInFlight are pending.
MaxInFlight == 2

Absent == "null"                       \* localStorage.getItem of a missing key
Users == {"u1"}
Usernames == Users \cup {""}                 \* what the form may hold
Passwords == {"", "pw"}
TokenOf(u) == "t-" \o u                      \* { token, name } of POST /login
NameOf(u) == "n-" \o u

Trees == {"new", "old"}
LayoutRoutes == {"/", "/dashboard", "/account", "/manual-trade", "/trade", "/risk"}
NewRoutes == LayoutRoutes \cup {"/login", "/signup"}
OldRoutes == {"/", "/dashboard", "/analysis", "/login", "/signup", "/login-page"}
RoutesOf(t) == IF t = "new" THEN NewRoutes ELSE OldRoutes

NoVal == [none |-> TRUE]

VARIABLES
  tree,               \* which front-end build is running: "new" (layout) or "old"
  route,              \* location.pathname
  crashed,            \* a render threw: React unmounted the whole tree
  store,              \* localStorage: stuckai_token, stuckai_name, stuckai_account
  isLoggedIn,         \* MainLayout, old Home: value computed at its last render
  hasAccount,         \* MainLayout: useState(false)
  savedAccount,       \* Account / old Dashboard: a saved account is shown
  autoTradeEnabled,   \* Trade / old Dashboard: useState(false)
  autoTradeResult,    \* Trade / old Dashboard: useState(null)
  loginStatus,        \* Login: status line
  loginTimer,         \* Login: pending setTimeout(() => navigate("/"), 500) calls
  signupTimer,        \* Signup: pending setTimeout(() => navigate("/login"), 800) calls
  net,                \* requests in flight: a bag of request records
  srvEnabled,         \* backend: the auto-trade enabled value it holds
  confirmed,          \* history: enabled value of the last successful response
                      \* the mounted auto-trade screen received ("none" before)
  overlapped,         \* history: a toggle was invoked while another toggle of
                      \* this screen instance was in flight
  raced,              \* history: a toggle was invoked while another toggle or
                      \* the load of this screen instance was in flight
  sessionLive,        \* history: a login stored a token and no logout or
                      \* rejected account query happened since
  notices,            \* what the last step showed: alert() and console.error() calls
  guard,              \* one guardedNavigate call on enumerated inputs (SpecGuard)
  page,               \* state of the mounted screen: order form, read models
  call                \* one call of a pure function on enumerated inputs

clientVars == <<tree, route, crashed, store, isLoggedIn, hasAccount, savedAccount,
                autoTradeEnabled, autoTradeResult, loginStatus, loginTimer,
                signupTimer, net,
                confirmed, overlapped, raced, sessionLive, page>>
mainVars == <<clientVars, srvEnabled, notices>>
vars == <<mainVars, guard, call>>

----------------------------------------------------------------------------
(* The client as one record, so that a handler is a function of it.        *)

Cur ==
  [tree |-> tree, route |-> route, crashed |-> crashed, store |-> store,
   isLoggedIn |-> isLoggedIn,
   hasAccount |-> hasAccount, savedAccount |-> savedAccount,
   autoTradeEnabled |-> autoTradeEnabled, autoTradeResult |-> autoTradeResult,
   loginStatus |-> loginStatus, loginTimer |-> loginTimer,
   signupTimer |-> signupTimer, net |-> net,
   confirmed |-> confirmed, overlapped |-> overlapped, raced |-> raced,
   sessionLive |-> sessionLive,
   page |-> page,
   alerts |-> <<>>, sent |-> <<>>, navs |-> <<>>]

\* useState initial values of the screens: ManualTrade (order form, history),
\* Risk, Trade (performance), Dashboard and Analysis (chart), Account
\* (balance), Signup (error and success lines).
PageBlank ==
  [orderResult |-> Absent, sending |-> FALSE, history |-> "[]",
   loadingHistory |-> FALSE, riskList |-> "[]", perf |-> Absent,
   perfSnapshots |-> "[]", candles |-> "[]", indicator |-> Absent,
   balanceParsed |-> NoVal, signupError |-> "", signupSuccess |-> ""]

EmptyStore ==
  [stuckai_token |-> Absent, stuckai_name |-> Absent, stuckai_account |-> Absent]

\* localStorage after a login and an account query that found an account.
LoggedInStore ==
  [stuckai_token |-> TokenOf("u1"), stuckai_name |-> NameOf("u1"),
   stuckai_account |-> "true"]

\* A freshly loaded page of tree t with nothing mounted yet.
Blank(t, st, live) ==
  [tree |-> t, route |-> "none", crashed |-> FALSE, store |-> st,
   isLoggedIn |-> FALSE,
   hasAccount |-> FALSE, savedAccount |-> FALSE,
   autoTradeEnabled |-> FALSE, autoTradeResult |-> Absent,
   loginStatus |-> "", loginTimer |-> 0, signupTimer |-> 0, net |-> EmptyBag,
   confirmed |-> "none", overlapped |-> FALSE, raced |-> FALSE,
   sessionLive |-> live,
   page |-> PageBlank,
   alerts |-> <<>>, sent |-> <<>>, navs |-> <<>>]

Req(op, arg) == [op |-> op, arg |-> arg, st |-> "sent", val |-> NoVal, live |-> TRUE]

Send(c, op, arg) ==
  [c EXCEPT !.net = @ (+) SetToBag({Req(op, arg)}), !.sent = Append(@, op)]

Alert(c, msg) == [c EXCEPT !.alerts = Append(@, msg)]

SetItem(c, key, value) == [c EXCEPT !.store[key] = value]

RemoveItem(c, key) == [c EXCEPT !.store[key] = Absent]

\* The requests of an unmounted component stay in flight; their setState
\* calls no longer reach any mounted instance.
OrphanReq(r, ops) == IF r.op \in ops THEN [r EXCEPT !.live = FALSE] ELSE r

Orphan(c, ops) ==
  LET old == BagToSet(c.net)
      new == {OrphanReq(r, ops) : r \in old}
      CountOf(q) == LET from == {r \in old : OrphanReq(r, ops) = q}
                        Sum[S \in SUBSET from] ==
                          IF S = {} THEN 0
                          ELSE LET r == CHOOSE x \in S : TRUE
                               IN c.net[r] + Sum[S \ {r}]
                    IN Sum[from]
  IN [c EXCEPT !.net = [q \in new |-> CountOf(q)]]

\* The bag with one copy of request r replaced by request q.
Replace(bag, r, q) == (bag (-) SetToBag({r})) (+) SetToBag({q})

BoolStr(b) == IF b THEN "on" ELSE "off"

\* !!x and if (x) of a stored string: null and the empty string are falsy.
Truthy(x) == x # Absent /\ x # ""

----------------------------------------------------------------------------
(* MainLayout: render, account synchronisation, navigation guard.          *)

InLayout(c) == c.tree = "new" /\ c.route \in LayoutRoutes

\* useEffect body of MainLayout up to the await.
syncAccountState(c) ==
  IF ~c.isLoggedIn
  THEN RemoveItem([c EXCEPT !.hasAccount = FALSE], "stuckai_account")
  ELSE Send(c, "sync", [token |-> c.store["stuckai_token"]])

\* A render of MainLayout recomputes isLoggedIn; the effect runs on mount and
\* whenever isLoggedIn differs from the previous render.
RenderLayout(c, mounting) ==
  LET c1 == [c EXCEPT !.isLoggedIn = Truthy(c.store["stuckai_token"])]
  IN IF mounting \/ c1.isLoggedIn # c.isLoggedIn THEN syncAccountState(c1) ELSE c1

TradeOps == {"loadCfg", "toggle", "run"}
PageOps ==
  {"order", "history", "riskSave", "riskList", "perf", "chart", "balance", "analysis"}
AccountOps == {"loadAccount", "saveAccount"}

HasTradeScreen(c) ==
  \/ c.tree = "new" /\ c.route = "/trade"
  \/ c.tree = "old" /\ c.route = "/dashboard"

HasAccountScreen(c) ==
  \/ c.tree = "new" /\ c.route = "/account"
  \/ c.tree = "old" /\ c.route = "/dashboard"

\* The screen of the current route goes away: its state is dropped.
UnmountScreen(c) ==
  LET c1 == IF HasTradeScreen(c)
            THEN Orphan([c EXCEPT !.autoTradeEnabled = FALSE,
                                  !.autoTradeResult = Absent,
                                  !.confirmed = "none", !.overlapped = FALSE,
                                  !.raced = FALSE], TradeOps)
            ELSE c
      c2 == IF HasAccountScreen(c1)
            THEN Orphan([c1 EXCEPT !.savedAccount = FALSE], AccountOps)
            ELSE c1
      c3 == Orphan([c2 EXCEPT !.page = PageBlank], PageOps)
  IN CASE c3.route = "/login" -> Orphan([c3 EXCEPT !.loginStatus = ""], {"login"})
       [] c3.route = "/signup" -> Orphan(c3, {"signup"})
       [] OTHER -> c3

\* A request sent by a handler of a screen instance; live tells whether that
\* instance is still mounted.  arg records what the screen showed when the
\* request was sent (history).
SendFrom(c, op, arg, live) ==
  [c EXCEPT !.net = @ (+) SetToBag({[Req(op, arg) EXCEPT !.live = live]}),
            !.sent = Append(@, op)]

loadRisk(c, live) == SendFrom(c, "riskList", [shownRisk |-> c.page.riskList], live)

fetchPerformance(c, live) ==
  SendFrom(c, "perf", [shownPerf |-> c.page.perf, shownSnapshots |-> c.page.perfSnapshots],
           live)

\* Promise.all([fetchChart, fetchIndicator]) as one request: it succeeds
\* when both succeed.
loadData(c, live) ==
  SendFrom(c, "chart", [shownCandles |-> c.page.candles,
                        shownIndicator |-> c.page.indicator], live)

\* Analysis.loadAll: Promise.all([fetchChart, fetchIndicator,
\* fetchPredictHistory]) as one request.
loadAll(c, live) ==
  SendFrom(c, "analysis", [shownCandles |-> c.page.candles,
                           shownIndicator |-> c.page.indicator,
                           shownHistory |-> c.page.history], live)

\* The mount effects of the screen of the current route.
MountScreen(c) ==
  LET c1 == IF c.tree = "new"
            THEN CASE c.route = "/trade" ->
                        Send(fetchPerformance(c, TRUE), "loadCfg", NoVal)
                   [] c.route = "/risk" -> loadRisk(c, TRUE)
                   [] c.route = "/dashboard" -> loadData(c, TRUE)
                   [] OTHER -> c
            ELSE IF c.route = "/analysis" THEN loadAll(c, TRUE) ELSE c
  IN IF HasAccountScreen(c1)
     THEN Send(c1, "loadAccount", [token |-> c1.store["stuckai_token"]])
     ELSE c1

\* navigate(path) of react-router: the screen changes, the layout is mounted,
\* rendered again or unmounted; the Home of the older tree computes its
\* isLoggedIn when it renders.  After a render error only the location
\* changes: no router is mounted to render it.
navigate(c, path) ==
  LET wasIn == InLayout(c)
      moved == path # c.route
      c1 == [c EXCEPT !.navs = Append(@, path)]
      c2 == IF moved THEN UnmountScreen(c1) ELSE c1
      c3 == [c2 EXCEPT !.route = path]
      c4 == IF moved THEN MountScreen(c3) ELSE c3
  IN IF c.crashed THEN [c1 EXCEPT !.route = path]
     ELSE IF InLayout(c4)
     THEN IF wasIn THEN RenderLayout(c4, FALSE)
          ELSE RenderLayout([c4 EXCEPT !.hasAccount = FALSE], TRUE)
     ELSE IF wasIn
          THEN Orphan([c4 EXCEPT !.hasAccount = FALSE, !.isLoggedIn = FALSE], {"sync"})
          ELSE [c4 EXCEPT !.isLoggedIn = c4.tree = "old" /\ c4.route = "/"
                                          /\ Truthy(c4.store["stuckai_token"])]

\* A page load at path (first visit, typed address, window.location.href).
Boot(t, st, live, path) ==
  LET c1 == MountScreen([Blank(t, st, live) EXCEPT !.route = path])
  IN IF InLayout(c1) THEN RenderLayout(c1, TRUE)
     ELSE [c1 EXCEPT !.isLoggedIn = t = "old" /\ path = "/"
                                      /\ Truthy(st["stuckai_token"])]

guardedNavigateNoReturn(c, path, requireLogin, requireAccount) ==
  LET c1 == IF requireLogin /\ ~c.isLoggedIn
            THEN navigate(Alert(c, "login-required"), "/login") ELSE c
      c2 == IF requireAccount /\ ~c.hasAccount
            THEN navigate(Alert(c1, "account-required"), "/account") ELSE c1
  IN navigate(c2, path)

guardedNavigateAccountFirst(c, path, requireLogin, requireAccount) ==
  IF requireAccount /\ ~c.hasAccount
  THEN navigate(Alert(c, "account-required"), "/account")
  ELSE IF requireLogin /\ ~c.isLoggedIn
       THEN navigate(Alert(c, "login-required"), "/login")
       ELSE navigate(c, path)

guardedNavigateTrustsMarker(c, path, requireLogin, requireAccount) ==
  IF requireLogin /\ ~c.isLoggedIn
  THEN navigate(Alert(c, "login-required"), "/login")
  ELSE IF requireAccount /\ ~(c.hasAccount \/ c.store["stuckai_account"] = "true")
       THEN navigate(Alert(c, "account-required"), "/account")
       ELSE navigate(c, path)

guardedNavigate(c, path, requireLogin, requireAccount) ==
  IF requireLogin /\ ~c.isLoggedIn
  THEN navigate(Alert(c, "login-required"), "/login")
  ELSE IF requireAccount /\ ~c.hasAccount
       THEN navigate(Alert(c, "account-required"), "/account")
       ELSE navigate(c, path)

SidebarButtons ==
  { [path |-> "/",             requireLogin |-> FALSE, requireAccount |-> FALSE],
    [path |-> "/dashboard",    requireLogin |-> FALSE, requireAccount |-> FALSE],
    [path |-> "/account",      requireLogin |-> TRUE,  requireAccount |-> FALSE],
    [path |-> "/manual-trade", requireLogin |-> TRUE,  requireAccount |-> TRUE],
    [path |-> "/trade",        requireLogin |-> TRUE,  requireAccount |-> TRUE],
    [path |-> "/risk",         requireLogin |-> TRUE,  requireAccount |-> TRUE] }

----------------------------------------------------------------------------
(* Writing a handler's result back.                                        *)

Apply(c) ==
  /\ LET before == BagCardinality(net) + loginTimer + signupTimer
         after == BagCardinality(c.net) + c.loginTimer + c.signupTimer
     IN after <= before \/ before < MaxInFlight
  /\ tree' = c.tree
  /\ route' = c.route
  /\ crashed' = c.crashed
  /\ store' = c.store
  /\ isLoggedIn' = c.isLoggedIn
  /\ hasAccount' = c.hasAccount
  /\ savedAccount' = c.savedAccount
  /\ autoTradeEnabled' = c.autoTradeEnabled
  /\ autoTradeResult' = c.autoTradeResult
  /\ loginStatus' = c.loginStatus
  /\ loginTimer' = c.loginTimer
  /\ signupTimer' = c.signupTimer
  /\ net' = c.net
  /\ confirmed' = c.confirmed
  /\ overlapped' = c.overlapped
  /\ raced' = c.raced
  /\ sessionLive' = c.sessionLive
  /\ page' = c.page
  /\ notices' = c.alerts

GuardIdle == [pc |-> "idle"]

CallIdle == [pc |-> "idle"]

InitClient(c) ==
  /\ tree = c.tree
  /\ route = c.route
  /\ crashed = c.crashed
  /\ store = c.store
  /\ isLoggedIn = c.isLoggedIn
  /\ hasAccount = c.hasAccount
  /\ savedAccount = c.savedAccount
  /\ autoTradeEnabled = c.autoTradeEnabled
  /\ autoTradeResult = c.autoTradeResult
  /\ loginStatus = c.loginStatus
  /\ loginTimer = c.loginTimer
  /\ signupTimer = c.signupTimer
  /\ net = c.net
  /\ confirmed = c.confirmed
  /\ overlapped = c.overlapped
  /\ raced = c.raced
  /\ sessionLive = c.sessionLive
  /\ page = c.page
  /\ notices = c.alerts

Init ==
  /\ \E t \in Trees : InitClient(Boot(t, EmptyStore, FALSE, "/"))
  /\ srvEnabled \in BOOLEAN
  /\ guard = GuardIdle
  /\ call = CallIdle

----------------------------------------------------------------------------
(* MainLayout buttons.                                                     *)

SidebarClick(b) ==
  /\ ~crashed
  /\ InLayout(Cur)
  /\ Apply(guardedNavigate(Cur, b.path, b.requireLogin, b.requireAccount))
  /\ UNCHANGED <<srvEnabled, guard, call>>

layoutLogoutStays(c) ==
  [RemoveItem(RemoveItem(RemoveItem(c, "stuckai_token"), "stuckai_name"),
              "stuckai_account") EXCEPT !.sessionLive = FALSE]

\* Logout button of the layout, shown while isLoggedIn.
layoutLogout(c) ==
  navigate([RemoveItem(RemoveItem(RemoveItem(c, "stuckai_token"), "stuckai_name"),
                       "stuckai_account") EXCEPT !.sessionLive = FALSE], "/login")

LayoutLogoutClick ==
  /\ ~crashed
  /\ InLayout(Cur)
  /\ isLoggedIn
  /\ Apply(layoutLogout(Cur))
  /\ UNCHANGED <<srvEnabled, guard, call>>

\* Login button of the layout, shown while not isLoggedIn.
LayoutLoginClick ==
  /\ ~crashed
  /\ InLayout(Cur)
  /\ ~isLoggedIn
  /\ Apply(navigate(Cur, "/login"))
  /\ UNCHANGED <<srvEnabled, guard, call>>

\* authApi.logoutUser(): exported, called by no component.
logoutUser(c) ==
  [RemoveItem(RemoveItem(c, "stuckai_token"), "stuckai_name")
     EXCEPT !.sessionLive = FALSE]

\* A call of the exported function from outside the components: the store
\* changes, nothing renders, navigates or is sent.  It is a step of Next
\* only; the sessions of SessionStep are the steps the components take.
LogoutUserCall ==
  /\ Apply(logoutUser(Cur))
  /\ UNCHANGED <<srvEnabled, guard, call>>

\* A page load: component state and the requests of the old page are gone.
EnterUrl(path) ==
  /\ Apply(Boot(tree, store, sessionLive, path))
  /\ UNCHANGED <<srvEnabled, guard, call>>

----------------------------------------------------------------------------
(* Older tree: Home and the monolithic Dashboard.                          *)

oldLogout(c) ==
  [RemoveItem(RemoveItem(c, "stuckai_token"), "stuckai_name")
     EXCEPT !.sessionLive = FALSE]

\* Dashboard logout button: window.location.href = "/login-page".
DashLogoutClick ==
  /\ ~crashed
  /\ tree = "old" /\ route = "/dashboard"
  /\ LET c == oldLogout(Cur)
     IN Apply(Boot(c.tree, c.store, c.sessionLive, "/login-page"))
  /\ UNCHANGED <<srvEnabled, guard, call>>

\* Home logout button, shown while isLoggedIn.
OldHomeLogoutClick ==
  /\ ~crashed
  /\ tree = "old" /\ route = "/"
  /\ isLoggedIn
  /\ Apply(navigate(oldLogout(Cur), "/login"))
  /\ UNCHANGED <<srvEnabled, guard, call>>

\* Home, trading dashboard panel button: the dashboard when logged in,
\* otherwise a notice and the login page.
OldHomeNav ==
  /\ ~crashed
  /\ tree = "old" /\ route = "/"
  /\ Apply(IF isLoggedIn
           THEN navigate(Cur, "/dashboard")
           ELSE navigate(Alert(Cur, "login-required"), "/login"))
  /\ UNCHANGED <<srvEnabled, guard, call>>

\* Home, sign-up and login panel buttons: a notice when logged in, otherwise
\* the page.
OldHomePanelClick(path) ==
  /\ ~crashed
  /\ tree = "old" /\ route = "/"
  /\ Apply(IF isLoggedIn THEN Alert(Cur, "already-logged-in") ELSE navigate(Cur, path))
  /\ UNCHANGED <<srvEnabled, guard, call>>

\* Buttons whose onClick is navigate(to) and nothing else: the sign-up button
\* of the layout, the sign-up button of the login form, the login and home
\* buttons of the sign-up form, and the header buttons of the old Home.
NavButtons ==
  { [trees |-> {"new"}, at |-> LayoutRoutes, loggedIn |-> {FALSE}, to |-> "/signup"],
    [trees |-> Trees, at |-> {"/login"}, loggedIn |-> BOOLEAN, to |-> "/signup"],
    [trees |-> Trees, at |-> {"/signup"}, loggedIn |-> BOOLEAN, to |-> "/login"],
    [trees |-> Trees, at |-> {"/signup"}, loggedIn |-> BOOLEAN, to |-> "/"],
    [trees |-> {"old"}, at |-> {"/"}, loggedIn |-> {TRUE}, to |-> "/"],
    [trees |-> {"old"}, at |-> {"/"}, loggedIn |-> {TRUE}, to |-> "/dashboard"],
    [trees |-> {"old"}, at |-> {"/"}, loggedIn |-> {FALSE}, to |-> "/login"],
    [trees |-> {"old"}, at |-> {"/"}, loggedIn |-> {FALSE}, to |-> "/signup"] }

NavButtonClick(b) ==
  /\ ~crashed
  /\ tree \in b.trees /\ route \in b.at /\ isLoggedIn \in b.loggedIn
  /\ Apply(navigate(Cur, b.to))
  /\ UNCHANGED <<srvEnabled, guard, call>>

\* Dashboard checkbox: setAutoTradeEnabled(!autoTradeEnabled), local only.
DashCheckboxClick ==
  /\ ~crashed
  /\ tree = "old" /\ route = "/dashboard"
  /\ Apply([Cur EXCEPT !.autoTradeEnabled = ~autoTradeEnabled])
  /\ UNCHANGED <<srvEnabled, guard, call>>

----------------------------------------------------------------------------
(* Login form.                                                             *)

handleSubmit(c, username, password) ==
  IF username = "" \/ password = ""
  THEN [c EXCEPT !.loginStatus = "empty-fields"]
  ELSE Send([c EXCEPT !.loginStatus = "pending"], "login",
            [username |-> username, password |-> password])

HandleSubmit(u, p) ==
  /\ ~crashed
  /\ route = "/login"
  /\ Apply(handleSubmit(Cur, u, p))
  /\ UNCHANGED <<srvEnabled, guard, call>>

loginUserTokenOnly(c, r) ==
  IF r.st = "ok" THEN SetItem(c, "stuckai_token", r.val.token) ELSE c

\* loginUser after the await: a failed request throws before any setItem.
loginUser(c, r) ==
  IF r.st = "ok"
  THEN SetItem(SetItem(c, "stuckai_token", r.val.token), "stuckai_name", r.val.name)
  ELSE c

\* handleSubmit after the await.
handleSubmitResume(c, r) ==
  LET c1 == loginUser(c, r)
  IN IF r.st = "ok"
     THEN [c1 EXCEPT !.sessionLive = TRUE, !.loginTimer = @ + 1,
                     !.loginStatus = IF r.live THEN "login-ok" ELSE @]
     ELSE [c1 EXCEPT !.loginStatus = IF r.live THEN "login-failed" ELSE @]

\* One of the 500 ms timers set after a successful login fires.
LoginTimerFire ==
  /\ loginTimer > 0
  /\ Apply(navigate([Cur EXCEPT !.loginTimer = @ - 1], "/"))
  /\ UNCHANGED <<srvEnabled, guard, call>>

\* "Back to home" button of the login form.
LoginGoHome ==
  /\ ~crashed
  /\ route = "/login"
  /\ Apply(navigate(Cur, "/"))
  /\ UNCHANGED <<srvEnabled, guard, call>>

----------------------------------------------------------------------------
(* Sign-up form (Signup.jsx).                                              *)

\* Contents of the form: each field empty or filled, the confirmation equal
\* to the password or not.
SignupForms ==
  [username : Usernames, password : Passwords,
   confirm : Passwords \cup {"pw2"}, name : {"", NameOf("u1")}]

\* handleSubmit of Signup up to the await.
signupHandleSubmit(c, form) ==
  LET c1 == [c EXCEPT !.page.signupError = "", !.page.signupSuccess = ""]
  IN IF form.username = "" \/ form.password = "" \/ form.confirm = "" \/ form.name = ""
     THEN [c1 EXCEPT !.page.signupError = "all-fields"]
     ELSE IF form.password # form.confirm
          THEN [c1 EXCEPT !.page.signupError = "password-mismatch"]
          ELSE Send(c1, "signup", [username |-> form.username,
                                   password |-> form.password, name |-> form.name])

SignupSubmit(form) ==
  /\ ~crashed
  /\ route = "/signup"
  /\ Apply(signupHandleSubmit(Cur, form))
  /\ UNCHANGED <<srvEnabled, guard, call>>

\* handleSubmit of Signup after the await: the detail of the backend's
\* rejection, or the default text when no response carries one.
signupHandleSubmitResume(c, r) ==
  IF r.st = "ok"
  THEN [c EXCEPT !.signupTimer = @ + 1,
                 !.page.signupSuccess = IF r.live THEN "signup-ok" ELSE @]
  ELSE [c EXCEPT !.page.signupError =
                   IF ~r.live THEN @
                   ELSE IF r.st = "rejected" THEN "detail" ELSE "signup-failed"]

\* One of the 800 ms timers set after a successful sign-up fires.
SignupTimerFire ==
  /\ signupTimer > 0
  /\ Apply(navigate([Cur EXCEPT !.signupTimer = @ - 1], "/login"))
  /\ UNCHANGED <<srvEnabled, guard, call>>

----------------------------------------------------------------------------
(* Account synchronisation of the layout, account screen.                  *)

\* A rejected account query that carried the token now stored.
StaleEvent(c, r) == r.st = "rejected" /\ r.arg.token = c.store["stuckai_token"]

syncFailKeepsAccount(c, r) == Alert(c, "console:account-sync-failed")

\* catch branch of syncAccountState.
syncFail(c, r) ==
  RemoveItem([Alert(c, "console:account-sync-failed")
                EXCEPT !.hasAccount = IF r.live THEN FALSE ELSE @], "stuckai_account")

syncAccountStateResumeIgnoresConfig(c, r) ==
  LET c0 == [c EXCEPT !.sessionLive = IF StaleEvent(c, r) THEN FALSE ELSE @]
      c1 == IF r.st = "ok"
            THEN SetItem([c0 EXCEPT !.hasAccount = IF r.live THEN TRUE ELSE @],
                         "stuckai_account", "true")
            ELSE syncFail(c0, r)
  IN IF InLayout(c1) /\ c1.hasAccount # c.hasAccount THEN RenderLayout(c1, FALSE) ELSE c1

\* syncAccountState after the await, then the render a changed hasAccount causes.
syncAccountStateResume(c, r) ==
  LET c0 == [c EXCEPT !.sessionLive = IF StaleEvent(c, r) THEN FALSE ELSE @]
      c1 == IF r.st = "ok"
            THEN IF r.val.has_config
                 THEN SetItem([c0 EXCEPT !.hasAccount = IF r.live THEN TRUE ELSE @],
                              "stuckai_account", "true")
                 ELSE RemoveItem([c0 EXCEPT !.hasAccount = IF r.live THEN FALSE ELSE @],
                                 "stuckai_account")
            ELSE syncFail(c0, r)
  IN IF InLayout(c1) /\ c1.hasAccount # c.hasAccount THEN RenderLayout(c1, FALSE) ELSE c1

\* loadAccount after the await (Account.jsx; the old Dashboard writes no marker).
loadAccountResume(c, r) ==
  LET c0 == [c EXCEPT !.sessionLive = IF StaleEvent(c, r) THEN FALSE ELSE @]
  IN IF c.tree = "old"
     THEN [c0 EXCEPT !.savedAccount =
                       IF r.st = "ok" /\ r.val.has_config /\ r.live THEN TRUE ELSE @]
     ELSE IF r.st = "ok" /\ r.val.has_config
          THEN SetItem([c0 EXCEPT !.savedAccount = IF r.live THEN TRUE ELSE @],
                       "stuckai_account", "true")
          ELSE RemoveItem(c0, "stuckai_account")

saveAccount(c) == Send(c, "saveAccount", [token |-> c.store["stuckai_token"]])

\* Account: the register form is shown while no saved account is displayed.
\* Old Dashboard: the save button of the account card is always shown.
SaveAccountClick ==
  /\ ~crashed
  /\ HasAccountScreen(Cur)
  /\ tree = "new" => ~savedAccount
  /\ Apply(saveAccount(Cur))
  /\ UNCHANGED <<srvEnabled, guard, call>>

\* saveAccount after the await: Account.jsx writes the marker, the old
\* Dashboard only calls setSavedAccount(res.data).
saveAccountResume(c, r) ==
  IF r.st = "ok"
  THEN LET c1 == [c EXCEPT !.savedAccount = IF r.live THEN TRUE ELSE @]
       IN Alert(IF c.tree = "new" THEN SetItem(c1, "stuckai_account", "true") ELSE c1,
                "account-saved")
  ELSE Alert(c, "account-save-failed")

----------------------------------------------------------------------------
(* Auto-trade screen (Trade.jsx) and the auto-trade card of the old Dashboard. *)

loadAutoTradeConfigResume(c, r) ==
  IF r.st = "ok"
  THEN IF r.val.isBool /\ r.live
       THEN [c EXCEPT !.autoTradeEnabled = r.val.enabled,
                      !.confirmed = BoolStr(r.val.enabled)]
       ELSE c
  ELSE Alert(c, "auto-trade-load-failed")

InFlightLive(c, ops) == \E r \in BagToSet(c.net) : r.op \in ops /\ r.live

toggleAutoTradeSendsCurrent(c) ==
  LET next == ~c.autoTradeEnabled
  IN Send([c EXCEPT !.autoTradeEnabled = next,
                    !.overlapped = @ \/ InFlightLive(c, {"toggle"}),
                    !.raced = @ \/ InFlightLive(c, {"toggle", "loadCfg"})],
          "toggle", [enabled |-> c.autoTradeEnabled])

toggleAutoTrade(c) ==
  LET next == ~c.autoTradeEnabled
  IN Send([c EXCEPT !.autoTradeEnabled = next,
                    !.overlapped = @ \/ InFlightLive(c, {"toggle"}),
                    !.raced = @ \/ InFlightLive(c, {"toggle", "loadCfg"})],
          "toggle", [enabled |-> next])

ToggleAutoTradeClick ==
  /\ ~crashed
  /\ tree = "new" /\ route = "/trade"
  /\ Apply(toggleAutoTrade(Cur))
  /\ UNCHANGED <<srvEnabled, guard, call>>

\* setAutoTradeEnabled(!next) in the catch branch.
toggleRollback(next) == ~next

toggleAutoTradeResume(c, r) ==
  IF r.st = "ok"
  THEN [c EXCEPT !.confirmed = IF r.live THEN BoolStr(r.arg.enabled) ELSE @]
  ELSE Alert([c EXCEPT !.autoTradeEnabled =
                         IF r.live THEN toggleRollback(r.arg.enabled) ELSE @],
             "auto-trade-save-failed")

runAutoTradeNoCheck(c) == Send(c, "run", NoVal)

runAutoTrade(c) ==
  IF ~c.autoTradeEnabled THEN Alert(c, "auto-trade-off") ELSE Send(c, "run", NoVal)

\* The run button; the old Dashboard disables it while the mirror is false.
RunAutoTradeClick ==
  /\ ~crashed
  /\ HasTradeScreen(Cur)
  /\ tree = "old" => autoTradeEnabled
  /\ Apply(runAutoTrade(Cur))
  /\ UNCHANGED <<srvEnabled, guard, call>>

runAutoTradeResume(c, r) ==
  IF r.st = "ok"
  THEN LET c1 == [c EXCEPT !.autoTradeResult = IF r.live THEN r.val.data ELSE @]
       IN IF c.tree = "new" THEN Alert(c1, "auto-trade-run-done") ELSE c1
  ELSE LET c1 == Alert(c, "auto-trade-run-failed")
       IN IF c.tree = "new" THEN Alert(c1, "console:auto-trade-run-failed") ELSE c1

----------------------------------------------------------------------------
(* Balance parsing (Account.jsx and the old Dashboard).  A JSON value is a *)
(* record: kind "array" with its items, kind "other" for any value that is *)
(* not an array, kind "missing" for an absent property.                    *)

\* Longest output1 / output2 array of a balance response.
MaxItems == 2

MissingVal == [kind |-> "missing", items |-> <<>>]
OtherVal == [kind |-> "other", items |-> <<>>]
ArrayVals(elems) ==
  {[kind |-> "array", items |-> q] :
     q \in UNION {[1..n -> elems] : n \in 0..MaxItems}}

JsonVals(elems) == {MissingVal, OtherVal} \cup ArrayVals(elems)

isArray(v) == v.kind = "array"

\* JavaScript values of summary: an element, undefined, or the literal {}.
Undefined == [kind |-> "undefined", v |-> ""]
EmptyObject == [kind |-> "object", v |-> "{}"]
Elem(x) == [kind |-> "elem", v |-> x]

\* output2[0]: undefined when the array is empty.
first(items) == IF Len(items) > 0 THEN Elem(items[1]) ELSE Undefined

\* The two lines that build { holdings, summary } from raw.
parseBalance(raw) ==
  [raised |-> FALSE,
   holdings |-> IF isArray(raw.output1) THEN raw.output1.items ELSE <<>>,
   summary |-> IF isArray(raw.output2) THEN first(raw.output2.items) ELSE EmptyObject]

NotParsed == [raised |-> FALSE, holdings |-> <<>>, summary |-> Undefined]

\* The body of a successful balance response, a JSON object: Account.jsx
\* reads data.raw || {}, the old Dashboard reads data itself.
BalanceBodies ==
  [hasRaw : BOOLEAN, output1 : JsonVals({"h1", "h2"}), output2 : JsonVals({"s1", "s2"})]

\* fetchBalance between the await and setBalanceParsed.
fetchBalanceParse(t, data) ==
  IF t = "new" /\ ~data.hasRaw
  THEN parseBalance([output1 |-> MissingVal, output2 |-> MissingVal])
  ELSE parseBalance(data)

\* The bodies the screens are run on: holdings with a summary row, and
\* holdings with an empty output2.
BalanceAnswers ==
  {b \in BalanceBodies :
     /\ b.hasRaw
     /\ b.output1 = [kind |-> "array", items |-> <<"h1">>]
     /\ b.output2 \in {[kind |-> "array", items |-> <<"s1">>],
                       [kind |-> "array", items |-> <<>>]}}

----------------------------------------------------------------------------
(* Screens with an order form and read models: ManualTrade, Risk, the      *)
(* performance card of Trade, the chart of the new Dashboard, the balance  *)
(* card of Account, and the same cards of the old Dashboard.               *)

Data == {"d1"}

\* x || []
OrElseEmpty(x) == IF x = Absent THEN "[]" ELSE x

HasScreen(c, path) ==
  \/ c.tree = "new" /\ c.route = path
  \/ c.tree = "old" /\ c.route = "/dashboard"

fetchHistory(c, live) ==
  LET c1 == IF live /\ c.tree = "new" THEN [c EXCEPT !.page.loadingHistory = TRUE] ELSE c
  IN SendFrom(c1, "history", [shownHistory |-> c.page.history], live)

FetchHistoryClick ==
  /\ ~crashed
  /\ HasScreen(Cur, "/manual-trade")
  /\ ~page.loadingHistory
  /\ Apply(fetchHistory(Cur, TRUE))
  /\ UNCHANGED <<srvEnabled, guard, call>>

fetchHistoryResume(c, r) ==
  LET c1 == IF r.st = "ok"
            THEN [c EXCEPT !.page.history =
                    IF ~r.live THEN @
                    ELSE IF c.tree = "new" THEN OrElseEmpty(r.val.data) ELSE r.val.data]
            ELSE Alert(c, "history-failed")
  IN IF r.live /\ c.tree = "new" THEN [c1 EXCEPT !.page.loadingHistory = FALSE] ELSE c1

sendOrderNoFlag(c, stock) ==
  IF c.tree = "new"
  THEN IF stock = "" THEN Alert(c, "order-stock-required")
       ELSE SendFrom(c, "order", [stock |-> stock], TRUE)
  ELSE SendFrom(c, "order", [stock |-> stock], TRUE)

sendOrder(c, stock) ==
  IF c.tree = "new"
  THEN IF stock = "" THEN Alert(c, "order-stock-required")
       ELSE SendFrom([c EXCEPT !.page.sending = TRUE], "order", [stock |-> stock], TRUE)
  ELSE SendFrom(c, "order", [stock |-> stock], TRUE)

SendOrderClick ==
  /\ ~crashed
  /\ HasScreen(Cur, "/manual-trade")
  /\ ~page.sending
  /\ \E stock \in {"", "005930"} : Apply(sendOrder(Cur, stock))
  /\ UNCHANGED <<srvEnabled, guard, call>>

sendOrderResume(c, r) ==
  LET c1 == IF r.st = "ok"
            THEN LET c2 == Alert([c EXCEPT !.page.orderResult =
                                              IF r.live THEN r.val.data ELSE @],
                                 "order-ok")
                 IN IF c.tree = "new" THEN fetchHistory(c2, r.live) ELSE c2
            ELSE [Alert(c, "order-failed")      \* err.response?.data || {}
                    EXCEPT !.page.orderResult =
                             IF ~r.live THEN @
                             ELSE IF r.st = "rejected" THEN "e1" ELSE "{}"]
  IN IF r.live /\ c.tree = "new" THEN [c1 EXCEPT !.page.sending = FALSE] ELSE c1

LoadRiskClick ==
  /\ ~crashed
  /\ HasScreen(Cur, "/risk")
  /\ Apply(loadRisk(Cur, TRUE))
  /\ UNCHANGED <<srvEnabled, guard, call>>

loadRiskResumeClears(c, r) ==
  [c EXCEPT !.page.riskList = IF ~r.live THEN @
                              ELSE IF r.st = "ok" THEN r.val.data ELSE "[]"]

\* catch (_) {}
loadRiskResume(c, r) ==
  IF r.st = "ok"
  THEN [c EXCEPT !.page.riskList = IF r.live THEN r.val.data ELSE @]
  ELSE c

saveRisk(c) == SendFrom(c, "riskSave", [stock |-> "ALL"], TRUE)

SaveRiskClick ==
  /\ ~crashed
  /\ HasScreen(Cur, "/risk")
  /\ Apply(saveRisk(Cur))
  /\ UNCHANGED <<srvEnabled, guard, call>>

saveRiskResume(c, r) ==
  IF r.st = "ok"
  THEN LET c1 == Alert(c, "risk-saved")
       IN IF c.tree = "new" THEN loadRisk(c1, r.live) ELSE c1
  ELSE Alert(Alert(c, "console:risk-save-failed"), "risk-save-failed")

FetchPerformanceClick ==
  /\ ~crashed
  /\ HasTradeScreen(Cur)
  /\ Apply(fetchPerformance(Cur, TRUE))
  /\ UNCHANGED <<srvEnabled, guard, call>>

fetchPerformanceResumeFirstWins(c, r) ==
  IF r.st = "ok"
  THEN IF r.live /\ c.page.perf = Absent
       THEN [c EXCEPT !.page.perf = r.val.summary,
                      !.page.perfSnapshots = OrElseEmpty(r.val.snapshots)]
       ELSE c
  ELSE Alert(c, "perf-failed")

fetchPerformanceResume(c, r) ==
  IF r.st = "ok"
  THEN IF r.live
       THEN [c EXCEPT !.page.perf = r.val.summary,
                      !.page.perfSnapshots = OrElseEmpty(r.val.snapshots)]
       ELSE c
  ELSE Alert(c, "perf-failed")

LoadDataClick ==
  /\ ~crashed
  /\ tree = "new" /\ route = "/dashboard"
  /\ Apply(loadData(Cur, TRUE))
  /\ UNCHANGED <<srvEnabled, guard, call>>

loadDataResume(c, r) ==
  IF r.st = "ok"
  THEN IF r.live
       THEN [c EXCEPT !.page.candles = OrElseEmpty(r.val.candles),
                      !.page.indicator = r.val.indicator]
       ELSE c
  ELSE Alert(Alert(c, "chart-failed"), "console:chart-failed")

fetchBalance(c) == SendFrom(c, "balance", [shownBalance |-> c.page.balanceParsed], TRUE)

\* The account screen shows the balance card once a saved account is shown.
FetchBalanceClick ==
  /\ ~crashed
  /\ HasAccountScreen(Cur)
  /\ tree = "new" => savedAccount
  /\ Apply(fetchBalance(Cur))
  /\ UNCHANGED <<srvEnabled, guard, call>>

fetchBalanceResume(c, r) ==
  IF r.st = "ok"
  THEN [c EXCEPT !.page.balanceParsed =
                   IF r.live THEN fetchBalanceParse(c.tree, r.val) ELSE @]
  ELSE Alert(c, "balance-failed")

\* Load button of Analysis (older tree).
LoadAllClick ==
  /\ ~crashed
  /\ tree = "old" /\ route = "/analysis"
  /\ Apply(loadAll(Cur, TRUE))
  /\ UNCHANGED <<srvEnabled, guard, call>>

loadAllResume(c, r) ==
  IF r.st = "ok"
  THEN IF r.live
       THEN [c EXCEPT !.page.candles = r.val.candles,
                      !.page.indicator = r.val.indicator,
                      !.page.history = r.val.history]
       ELSE c
  ELSE Alert(Alert(c, "analysis-failed"), "console:analysis-failed")

----------------------------------------------------------------------------
(* Backend and network: a black box behind the endpoints of the client.    *)

\* The continuation of the handler that awaits request r, and the render
\* that follows it.  The old Dashboard renders history.map and Analysis
\* chart.length: on null or undefined the render throws, no error boundary
\* catches it and React unmounts the whole tree.
Resume(c, r) ==
  LET c1 == CASE r.op = "login"       -> handleSubmitResume(c, r)
             [] r.op = "sync"        -> syncAccountStateResume(c, r)
             [] r.op = "loadAccount" -> loadAccountResume(c, r)
             [] r.op = "saveAccount" -> saveAccountResume(c, r)
             [] r.op = "loadCfg"     -> loadAutoTradeConfigResume(c, r)
             [] r.op = "toggle"      -> toggleAutoTradeResume(c, r)
             [] r.op = "run"         -> runAutoTradeResume(c, r)
             [] r.op = "order"       -> sendOrderResume(c, r)
             [] r.op = "history"     -> fetchHistoryResume(c, r)
             [] r.op = "riskSave"    -> saveRiskResume(c, r)
             [] r.op = "riskList"    -> loadRiskResume(c, r)
             [] r.op = "perf"        -> fetchPerformanceResume(c, r)
             [] r.op = "chart"       -> loadDataResume(c, r)
             [] r.op = "balance"     -> fetchBalanceResume(c, r)
             [] r.op = "analysis"    -> loadAllResume(c, r)
             [] r.op = "signup"      -> signupHandleSubmitResume(c, r)
      throws == /\ c1.tree = "old" /\ ~c1.crashed
                /\ \/ c1.route = "/dashboard" /\ c1.page.history = Absent
                   \/ /\ c1.route = "/analysis"
                      /\ Absent \in {c1.page.candles, c1.page.history}
  IN IF throws THEN [UnmountScreen(c1) EXCEPT !.crashed = TRUE] ELSE c1

RunResults == {"r1"}

\* Requests whose handling reads or writes the backend state this model keeps.
StatefulOps == {"loadCfg", "toggle"}

\* The answers the backend may give to request r when it accepts it.
Answers(r) ==
  CASE r.op = "login" ->
         {[token |-> TokenOf(r.arg.username), name |-> NameOf(r.arg.username)]}
    [] r.op \in {"sync", "loadAccount"} -> {[has_config |-> b] : b \in BOOLEAN}
    [] r.op = "saveAccount" -> {[has_config |-> TRUE]}
    [] r.op = "loadCfg" -> {[isBool |-> TRUE, enabled |-> srvEnabled],
                            [isBool |-> FALSE, enabled |-> FALSE]}
    [] r.op = "toggle" -> {[enabled |-> r.arg.enabled]}
    [] r.op = "run" -> {[data |-> d] : d \in RunResults}
    [] r.op = "order" -> {[data |-> d] : d \in Data}
    [] r.op = "history" -> {[data |-> d] : d \in Data \cup {Absent}}
    [] r.op = "riskSave" -> {NoVal}
    [] r.op = "riskList" -> {[data |-> d] : d \in Data}
    [] r.op = "perf" -> [summary : Data, snapshots : {Absent, "s1"}]
    [] r.op = "chart" -> [candles : {Absent, "c1"}, indicator : {"i1"}]
    [] r.op = "balance" -> BalanceAnswers
    [] r.op = "analysis" ->
         [candles : {Absent, "c1"}, indicator : {"i1"}, history : Data]
    [] r.op = "signup" -> {NoVal}

\* How a request the backend keeps no modelled state for may end: answered,
\* rejected by the backend, or lost.
Outcomes(r) ==
  {[r EXCEPT !.st = "ok", !.val = v] : v \in Answers(r)}
    \cup IF r.op = "chart"
         THEN \* Promise.all rejects when the chart request, the indicator
              \* request or both fail; val holds what the backend answered
              \* to the half that did not fail.
              {[r EXCEPT !.st = s,
                         !.val = [candles |-> v.candles, indicator |-> v.indicator,
                                  failed |-> h]] :
                 s \in {"rejected", "neterr"}, v \in Answers(r),
                 h \in {"candles", "indicator", "both"}}
         ELSE {[r EXCEPT !.st = "rejected"], [r EXCEPT !.st = "neterr"]}

\* The backend handles an auto-trade config request: a PUT sets the value.
ServerAccept(r) ==
  /\ r.op \in StatefulOps
  /\ r.st = "sent"
  /\ \E v \in Answers(r) : net' = Replace(net, r, [r EXCEPT !.st = "ok", !.val = v])
  /\ srvEnabled' = IF r.op = "toggle" THEN r.arg.enabled ELSE srvEnabled
  /\ notices' = <<>>
  /\ UNCHANGED <<tree, route, crashed, store, isLoggedIn, hasAccount, savedAccount,
                 autoTradeEnabled, autoTradeResult, loginStatus, loginTimer,
                 signupTimer, confirmed, overlapped, raced, sessionLive, page, guard,
                 call>>

\* The backend refuses the request or the request is lost on its way (nothing
\* is applied), or the response is lost on its way back.
NetworkFail(r) ==
  /\ r.op \in StatefulOps
  /\ r.st \in {"sent", "ok"}
  /\ net' = Replace(net, r, [r EXCEPT !.st = "neterr", !.val = NoVal])
  /\ notices' = <<>>
  /\ UNCHANGED <<tree, route, crashed, store, isLoggedIn, hasAccount, savedAccount,
                 autoTradeEnabled, autoTradeResult, loginStatus, loginTimer,
                 signupTimer, confirmed, overlapped, raced, sessionLive, page,
                 srvEnabled, guard, call>>

----------------------------------------------------------------------------
(* Responses reaching the client.  The outcome of a request the backend    *)
(* keeps no modelled state for is chosen when its response is delivered.   *)

\* The ways request q may come back to the client now.
Arrivals(q) ==
  IF q.op \in StatefulOps THEN IF q.st = "sent" THEN {} ELSE {q} ELSE Outcomes(q)

\* Request q comes back as r and the handler awaiting it runs on.
Deliver(q, r) ==
  /\ q \in BagToSet(net)
  /\ r \in Arrivals(q)
  /\ Apply(Resume([Cur EXCEPT !.net = net (-) SetToBag({q})], r))
  /\ UNCHANGED <<srvEnabled, guard, call>>

\* A request of one of the kinds ops comes back.
Response(ops) ==
  \E q \in BagToSet(net) : q.op \in ops /\ \E r \in Arrivals(q) : Deliver(q, r)

----------------------------------------------------------------------------
(* guardedNavigate on every combination of its inputs.                     *)

GuardInputs ==
  [path : LayoutRoutes, requireLogin : BOOLEAN, requireAccount : BOOLEAN,
   isLoggedIn : BOOLEAN, hasAccount : BOOLEAN]

\* A mounted layout whose render saw in.isLoggedIn and whose state is in.hasAccount.
GuardClient(in) ==
  [Blank("new", [EmptyStore EXCEPT !["stuckai_token"] =
                                     IF in.isLoggedIn THEN TokenOf("u1") ELSE Absent], FALSE)
     EXCEPT !.route = "/", !.isLoggedIn = in.isLoggedIn, !.hasAccount = in.hasAccount]

GuardCall ==
  /\ guard.pc = "call"
  /\ LET c == guardedNavigate(GuardClient(guard.in), guard.in.path,
                              guard.in.requireLogin, guard.in.requireAccount)
     IN guard' = [pc |-> "done", in |-> guard.in, alerts |-> c.alerts,
                  navs |-> c.navs, route |-> c.route]
  /\ UNCHANGED <<mainVars, call>>

InitGuard ==
  /\ InitClient(Boot("new", EmptyStore, FALSE, "/"))
  /\ srvEnabled = FALSE
  /\ guard \in {[pc |-> "call", in |-> in, alerts |-> <<>>, navs |-> <<>>,
                 route |-> "/"] : in \in GuardInputs}
  /\ call = CallIdle

NextGuard == GuardCall

SpecGuard == InitGuard /\ [][NextGuard]_vars

----------------------------------------------------------------------------
(* Row classification of the auto-trade result list (Trade.jsx render).    *)
(* Scores and rewards are in hundredths: 30 stands for 0.3.                *)

BuyThreshold == 30
SellThreshold == -30

Scores == {-100, -50, -31, -30, -29, -1, 0, 1, 29, 30, 31, 50, 100}
Rewards == {-125, -10, 0, 10, 125}

classifyInclusive(item) ==
  IF item.action >= BuyThreshold THEN "BUY"
  ELSE IF item.action <= SellThreshold THEN "SELL"
  ELSE "HOLD"

\* actionText of one row: BUY, SELL or HOLD (shown in Korean by the screen).
classify(item) ==
  IF item.action > BuyThreshold THEN "BUY"
  ELSE IF item.action < SellThreshold THEN "SELL"
  ELSE "HOLD"

ClassifyCall ==
  /\ call.pc = "call" /\ call.fn = "classify"
  /\ call' = [call EXCEPT !.pc = "done", !.out = classify(call.in)]
  /\ UNCHANGED <<mainVars, guard>>

InitClassify ==
  /\ InitClient(Boot("new", EmptyStore, FALSE, "/trade"))
  /\ srvEnabled = FALSE
  /\ guard = GuardIdle
  /\ call \in {[pc |-> "call", fn |-> "classify", in |-> [action |-> a, reward |-> w],
                 out |-> ""] : a \in Scores, w \in Rewards}

NextClassify == ClassifyCall

SpecClassify == InitClassify /\ [][NextClassify]_vars

----------------------------------------------------------------------------
(* One balance response parsed on enumerated bodies.                      *)

ParseCall ==
  /\ call.pc = "call" /\ call.fn = "parse"
  /\ call' = [call EXCEPT !.pc = "done", !.out = fetchBalanceParse(call.tree, call.in)]
  /\ UNCHANGED <<mainVars, guard>>

InitParse ==
  /\ \E t \in Trees : /\ InitClient(Boot(t, LoggedInStore, TRUE,
                                          IF t = "new" THEN "/account" ELSE "/dashboard"))
                       /\ call \in {[pc |-> "call", fn |-> "parse", tree |-> t, in |-> b,
                                      out |-> NotParsed] : b \in BalanceBodies}
  /\ srvEnabled = FALSE
  /\ guard = GuardIdle

NextParse == ParseCall

SpecParse == InitParse /\ [][NextParse]_vars

----------------------------------------------------------------------------
(* The shared axios client (axiosInstance.js): its request interceptor.    *)

\* Request configs as the callers build them: some pass an X-API-Key header.
Configs ==
  [url : {"/login", "/me/account", "/trade/auto"},
   Authorization : {Absent}, XApiKey : {Absent, "key"}]

interceptorNoCheck(config, st) ==
  LET token == st["stuckai_token"]
  IN [config |-> [config EXCEPT !.Authorization = "Bearer " \o token], store |-> st]

\* api.interceptors.request.use callback: the config it returns, and
\* localStorage after it.
interceptor(config, st) ==
  LET token == st["stuckai_token"]
  IN IF Truthy(token)
     THEN [config |-> [config EXCEPT !.Authorization = "Bearer " \o token], store |-> st]
     ELSE [config |-> config, store |-> st]

\* A request goes out through the client.
GatewaySend(config) ==
  /\ call.fn = "send"
  /\ LET res == interceptor(config, store)
     IN /\ call' = [call EXCEPT !.pc = "sent", !.config = res.config]
        /\ store' = res.store
  /\ notices' = <<>>
  /\ UNCHANGED <<tree, route, crashed, isLoggedIn, hasAccount, savedAccount, autoTradeEnabled,
                 autoTradeResult, loginStatus, loginTimer, signupTimer, net, confirmed,
                 overlapped, raced, sessionLive, page, srvEnabled, guard>>

\* The client is created when the page loads, at the login form: over an
\* empty localStorage or over the one a login and an account query left.
InitGateway ==
  /\ \E st \in {EmptyStore, LoggedInStore} :
       /\ InitClient(Boot("new", st, Truthy(st["stuckai_token"]), "/login"))
       /\ call = [pc |-> "created", fn |-> "send", created |-> st["stuckai_token"],
                  config |-> [url |-> "", Authorization |-> Absent, XApiKey |-> Absent]]
  /\ srvEnabled = FALSE
  /\ guard = GuardIdle

\* Requests go out while logins store the token and the name, the layout's
\* logout removes them and the layout's account query rewrites the marker.
NextGateway ==
  \/ \E config \in Configs : GatewaySend(config)
  \/ \E u \in Usernames, p \in Passwords : HandleSubmit(u, p)
  \/ LoginTimerFire
  \/ LoginGoHome
  \/ LayoutLoginClick
  \/ LayoutLogoutClick
  \/ Response({"login"})
  \/ Response({"sync"})

SpecGateway == InitGateway /\ [][NextGateway]_vars

----------------------------------------------------------------------------
(* Specifications.  Spec is the whole front end.  SpecSession is the        *)
(* session, the account and the navigation among the screens that send no  *)
(* read-model request when they mount; SpecTrade is a page loaded at the    *)
(* auto-trade screen, its toggles and the navigation away from it and back; *)
(* SpecToggles is the mounted auto-trade card, its toggles and runs;        *)
(* SpecPages and SpecOldCards are the screens with read models, each        *)
(* entered directly; SpecMarker is the layout with every sidebar button.    *)
(* The parts share no state but the route and the requests in flight.       *)

BackendStep ==
  \/ \E r \in BagToSet(net) : ServerAccept(r)
  \/ \E r \in BagToSet(net) : NetworkFail(r)

\* Session, account and navigation handlers, with the sidebar buttons and
\* the page loads that lead to one of paths.
SessionStep(paths) ==
  \/ \E b \in {x \in SidebarButtons : x.path \in paths} : SidebarClick(b)
  \/ LayoutLogoutClick
  \/ LayoutLoginClick
  \/ \E p \in RoutesOf(tree) \cap paths : EnterUrl(p)
  \/ DashLogoutClick
  \/ OldHomeLogoutClick
  \/ OldHomeNav
  \/ \E path \in {"/signup", "/login"} : OldHomePanelClick(path)
  \/ \E b \in NavButtons : NavButtonClick(b)
  \/ \E u \in Usernames, p \in Passwords : HandleSubmit(u, p)
  \/ LoginTimerFire
  \/ LoginGoHome
  \/ \E form \in SignupForms : SignupSubmit(form)
  \/ SignupTimerFire
  \/ SaveAccountClick
  \/ Response({"login"})
  \/ Response({"signup"})
  \/ Response({"sync"})
  \/ Response({"loadAccount"})
  \/ Response({"saveAccount"})

\* Leaving the auto-trade screen and coming back to it.
TradeNavStep ==
  \/ \E b \in {x \in SidebarButtons : x.path \in {"/", "/trade"}} : SidebarClick(b)
  \/ EnterUrl(IF tree = "new" THEN "/trade" ELSE "/dashboard")
  \/ Response({"perf"})
  \/ Response({"sync"})
  \/ Response({"loadAccount"})
  \/ Response({"loadCfg"})

Next ==
  \/ SessionStep(NewRoutes \cup OldRoutes)
  \/ LogoutUserCall
  \/ ToggleAutoTradeClick
  \/ RunAutoTradeClick
  \/ DashCheckboxClick
  \/ Response({"toggle"})
  \/ Response({"run"})
  \/ SendOrderClick
  \/ FetchHistoryClick
  \/ SaveRiskClick
  \/ LoadRiskClick
  \/ FetchPerformanceClick
  \/ LoadDataClick
  \/ LoadAllClick
  \/ FetchBalanceClick
  \/ Response(PageOps \cup {"loadCfg"})
  \/ BackendStep

Spec == Init /\ [][Next]_vars

\* The screens whose mount sends nothing but the account queries.
NextSession ==
  SessionStep(IF tree = "new"
              THEN {"/", "/account", "/manual-trade", "/login", "/signup"}
              ELSE OldRoutes \ {"/analysis"})

\* The page as first loaded; no step of the session reads the auto-trade
\* value the backend holds.
InitSession ==
  /\ \E t \in Trees : InitClient(Boot(t, EmptyStore, FALSE, "/"))
  /\ srvEnabled = FALSE
  /\ guard = GuardIdle
  /\ call = CallIdle

SpecSession == InitSession /\ [][NextSession]_vars

InitTrade ==
  /\ \/ \E st \in {EmptyStore, LoggedInStore} :
          InitClient(Boot("new", st, st # EmptyStore, "/trade"))
     \/ InitClient(Boot("old", LoggedInStore, TRUE, "/dashboard"))
  /\ srvEnabled \in BOOLEAN
  /\ guard = GuardIdle
  /\ call = CallIdle

NextTrade ==
  \/ ToggleAutoTradeClick
  \/ DashCheckboxClick
  \/ Response({"toggle"})
  \/ TradeNavStep
  \/ BackendStep

SpecTrade == InitTrade /\ [][NextTrade]_vars

\* The screens with an order form or read models, each entered directly.
InitPages ==
  /\ \E st \in {EmptyStore, LoggedInStore},
        path \in {"/manual-trade", "/risk", "/trade", "/dashboard", "/account"} :
       InitClient(Boot("new", st, st # EmptyStore, path))
  /\ srvEnabled = FALSE
  /\ guard = GuardIdle
  /\ call = CallIdle

NextPages ==
  \/ SendOrderClick
  \/ FetchHistoryClick
  \/ SaveRiskClick
  \/ LoadRiskClick
  \/ FetchPerformanceClick
  \/ LoadDataClick
  \/ FetchBalanceClick
  \/ Response(PageOps)
  \/ Response({"sync"})
  \/ Response({"loadAccount"})
  \/ Response({"loadCfg"})
  \/ BackendStep

SpecPages == InitPages /\ [][NextPages]_vars

\* The order, history and risk cards of the old Dashboard, and Analysis.
InitOldCards ==
  /\ \E path \in {"/dashboard", "/analysis"} :
       InitClient(Boot("old", LoggedInStore, TRUE, path))
  /\ srvEnabled = FALSE
  /\ guard = GuardIdle
  /\ call = CallIdle

NextOldCards ==
  \/ SendOrderClick
  \/ FetchHistoryClick
  \/ SaveRiskClick
  \/ LoadRiskClick
  \/ LoadAllClick
  \/ Response(PageOps)
  \/ Response({"loadAccount"})

SpecOldCards == InitOldCards /\ [][NextOldCards]_vars

\* A page load of the new tree over a localStorage left by an earlier visit:
\* the token and the stuckai_account marker are each present or absent.
InitMarker ==
  /\ \E tok \in {Absent, TokenOf("u1")}, m \in {Absent, "true"} :
       InitClient(Boot("new",
                       [stuckai_token |-> tok,
                        stuckai_name |-> IF tok = Absent THEN Absent ELSE NameOf("u1"),
                        stuckai_account |-> m],
                       tok # Absent, "/"))
  /\ srvEnabled = FALSE
  /\ guard = GuardIdle
  /\ call = CallIdle

NextMarker ==
  \/ \E b \in SidebarButtons : SidebarClick(b)
  \/ LayoutLogoutClick
  \/ \E p \in RoutesOf(tree) : EnterUrl(p)
  \/ SaveAccountClick
  \/ Response({"sync"})
  \/ Response({"loadAccount"})
  \/ Response({"saveAccount"})
  \/ Response({"loadCfg"})
  \/ Response(PageOps)
  \/ BackendStep

SpecMarker == InitMarker /\ [][NextMarker]_vars

\* The auto-trade screen after its load and the requests of its mount were
\* answered, the mirror holding the value b of the backend, and the old
\* Dashboard as loaded; toggles and runs.
InitToggles ==
  /\ \E b \in BOOLEAN :
       /\ \/ InitClient([Boot("new", LoggedInStore, TRUE, "/trade")
                           EXCEPT !.net = EmptyBag, !.sent = <<>>, !.hasAccount = TRUE,
                                  !.autoTradeEnabled = b, !.confirmed = BoolStr(b)])
          \/ InitClient(Boot("old", LoggedInStore, TRUE, "/dashboard"))
       /\ srvEnabled = b
  /\ guard = GuardIdle
  /\ call = CallIdle

NextToggles ==
  \/ ToggleAutoTradeClick
  \/ RunAutoTradeClick
  \/ DashCheckboxClick
  \/ Response({"toggle"})
  \/ Response({"run"})
  \/ Response({"loadAccount"})
  \/ BackendStep

SpecToggles == InitToggles /\ [][NextToggles]_vars

----------------------------------------------------------------------------
(* Auto-trade screen: properties of SpecTrade.                             *)

OnTradeScreen == tree = "new" /\ route = "/trade"

\* C1 as stated: on the auto-trade screen, when each toggle was invoked only
\* after the previous one had resolved and no toggle is in flight, the mirror
\* autoTradeEnabled equals the value of the last successful response the
\* screen received from the backend.
C1_AsStated ==
  (OnTradeScreen /\ ~overlapped /\ confirmed # "none" /\ ~InFlightLive(Cur, {"toggle"}))
    => BoolStr(autoTradeEnabled) = confirmed

\* C2: a toggle invoked with mirror v sets the mirror to NOT v at once and
\* sends a PUT carrying enabled = NOT v; when that PUT fails the mirror is v
\* again and the failure notice is raised; when it succeeds the handler
\* changes nothing and raises nothing, and the mirror is NOT v (toggles
\* invoked one at a time).
C2_ToggleFailurePath ==
  [][/\ ToggleAutoTradeClick =>
          /\ autoTradeEnabled' = ~autoTradeEnabled
          /\ net' = net (+) SetToBag({Req("toggle", [enabled |-> ~autoTradeEnabled])})
     /\ \A q \in BagToSet(net) : \A r \in Arrivals(q) :
          (q.op = "toggle" /\ r.live /\ Deliver(q, r)) =>
             IF r.st = "ok"
             THEN /\ autoTradeEnabled' = autoTradeEnabled
                  /\ notices' = <<>>
                  /\ ~raced => autoTradeEnabled' = r.arg.enabled
             ELSE /\ autoTradeEnabled' = ~r.arg.enabled
                  /\ notices' = <<"auto-trade-save-failed">>]_vars

\* Disabled -> Enabled refused by the backend: the mirror is Disabled again,
\* the notice is up, and the backend still holds Disabled.
C2_Witness ==
  /\ OnTradeScreen /\ ~raced /\ confirmed = "off"
  /\ net = EmptyBag
  /\ notices = <<"auto-trade-save-failed">>
  /\ ~autoTradeEnabled /\ ~srvEnabled

\* C3: runAutoTrade invoked while the mirror is false sends no request,
\* raises the notice and leaves autoTradeResult as it was (the old Dashboard
\* keeps its run button disabled while the mirror is false).
C3_RunRefusedLocally ==
  [][(RunAutoTradeClick /\ ~autoTradeEnabled) =>
       /\ net' = net
       /\ notices' = <<"auto-trade-off">>
       /\ autoTradeResult' = autoTradeResult]_vars

\* The run was refused after an earlier run had produced a result.
C3_Witness ==
  /\ OnTradeScreen
  /\ notices = <<"auto-trade-off">>
  /\ ~autoTradeEnabled
  /\ autoTradeResult # Absent
  /\ net = EmptyBag

----------------------------------------------------------------------------
(* Navigation guard: C4 is a property of SpecSession, C5 of SpecGuard.      *)

\* C4: in every reachable state in which the
\* layout is mounted and no token is stored, every guardedNavigate call the
\* layout can make with requireAccount, that of each sidebar button passing
\* it (part_002:175-212), goes to /login with the login notice and makes no
\* other navigation; none goes to /account.
C4_LoggedOutGoesToLogin ==
  (InLayout(Cur) /\ ~crashed /\ ~Truthy(store["stuckai_token"])) =>
    \A b \in SidebarButtons :
      b.requireAccount =>
        LET c == guardedNavigate(Cur, b.path, b.requireLogin, b.requireAccount)
        IN /\ c.navs = <<"/login">>
           /\ c.route = "/login"
           /\ c.alerts = <<"login-required">>

\* With no token stored a sidebar button that requires login was clicked:
\* the guard raised the login notice and left the layout for the login form.
C4_Witness ==
  /\ tree = "new" /\ route = "/login"
  /\ ~Truthy(store["stuckai_token"]) /\ ~sessionLive
  /\ notices = <<"login-required">>

\* C5: for every combination of isLoggedIn, hasAccount, requireLogin and
\* requireAccount, guardedNavigate goes to /login with a notice when
\* requireLogin and not isLoggedIn, otherwise to /account with a notice when
\* requireAccount and not hasAccount, otherwise to the requested path without
\* a notice; each call navigates exactly once.
C5_DecisionTable ==
  guard.pc = "done" =>
    LET in == guard.in
        target == IF in.requireLogin /\ ~in.isLoggedIn THEN "/login"
                  ELSE IF in.requireAccount /\ ~in.hasAccount THEN "/account"
                  ELSE in.path
        notice == IF in.requireLogin /\ ~in.isLoggedIn THEN <<"login-required">>
                  ELSE IF in.requireAccount /\ ~in.hasAccount
                       THEN <<"account-required">>
                       ELSE <<>>
    IN /\ Len(guard.navs) = 1
       /\ guard.navs[1] = target
       /\ guard.route = target
       /\ guard.alerts = notice

\* A logged-in call without an account for a screen that needs one ended at
\* /account, the requested screen was not visited.
C5_Witness ==
  /\ guard.pc = "done"
  /\ guard.in.isLoggedIn /\ ~guard.in.hasAccount
  /\ guard.in.requireLogin /\ guard.in.requireAccount
  /\ guard.in.path = "/manual-trade"
  /\ guard.navs = <<"/account">>
  /\ guard.alerts = <<"account-required">>

----------------------------------------------------------------------------
(* Session store and account gate: properties of SpecSession.              *)

Token == store["stuckai_token"]
Marker == store["stuckai_account"]

\* C6: when the account query of the layout's synchronisation fails, rejected
\* or lost, the marker is removed and hasAccount of the layout that issued it
\* is false, whatever both were before; a failed account query of the
\* account screen removes the marker as well.
C6_AccountGateFailClosed ==
  [][\A q \in BagToSet(net) : \A r \in Arrivals(q) :
       (r.st # "ok" /\ Deliver(q, r)) =>
          /\ (q.op = "sync") => /\ Marker' = Absent
                                /\ r.live => ~hasAccount'
          /\ (q.op = "loadAccount" /\ tree = "new") => Marker' = Absent]_vars

\* The account query of a logged-in layout has just failed.
C6_Witness ==
  /\ InLayout(Cur) /\ isLoggedIn /\ Token # Absent
  /\ notices = <<"console:account-sync-failed">>
  /\ ~hasAccount /\ Marker = Absent
  /\ ~InFlightLive(Cur, {"sync"})

\* C7 as stated: a token is stored exactly when a login stored one and
\* neither a logout nor a rejected account query happened since.
C7_AsStated == (Token # Absent) <=> sessionLive

\* C8 as stated: an account query (layout synchronisation or account screen)
\* that fails while a token is stored removes token, name and marker and
\* leads to the login page.
C8_AsStated ==
  [][\A q \in BagToSet(net) : \A r \in Arrivals(q) :
       (q.op \in {"sync", "loadAccount"} /\ r.st # "ok" /\ Token # Absent
          /\ Deliver(q, r)) =>
            /\ store' = EmptyStore
            /\ route' = "/login"]_vars

\* C9: a failed POST /login leaves token and name (the whole store) as they
\* were and the form shows the failure; a successful one stores the token
\* and the name of the response in the step that completes the login.
C9_LoginStoreEffect ==
  [][\A q \in BagToSet(net) : \A r \in Arrivals(q) :
       (q.op = "login" /\ Deliver(q, r)) =>
          IF r.st = "ok"
          THEN /\ Token' = TokenOf(q.arg.username)
               /\ store'["stuckai_name"] = NameOf(q.arg.username)
               /\ r.live => loginStatus' = "login-ok"
          ELSE /\ store' = store
               /\ r.live => loginStatus' = "login-failed"]_vars

\* A login has just succeeded on the form: token and name are stored.
C9_Witness ==
  /\ route = "/login" /\ loginStatus = "login-ok" /\ loginTimer > 0
  /\ Token = TokenOf("u1")
  /\ store["stuckai_name"] = NameOf("u1")

\* C10 as stated: every logout operation leaves the store without token,
\* name and marker and sends nothing.  The three logout buttons are taken
\* where they are clicked; authApi.logoutUser, which no component calls, is
\* taken as the function it is, applied to every reachable state.
C10_AsStated ==
  /\ [](LET c == logoutUser(Cur)
        IN /\ c.store = EmptyStore
           /\ BagCardinality(c.net) <= BagCardinality(net))
  /\ [][(LayoutLogoutClick \/ DashLogoutClick \/ OldHomeLogoutClick) =>
         /\ store' = EmptyStore
         /\ BagCardinality(net') <= BagCardinality(net)]_vars

ManualTradeButton ==
  [path |-> "/manual-trade", requireLogin |-> TRUE, requireAccount |-> TRUE]

\* C11 as stated: right after a save of the account screen succeeded while
\* logged in, the guarded navigation to /manual-trade proceeds to
\* /manual-trade.
C11_AsStated ==
  [][(/\ tree = "new" /\ route = "/account"
      /\ isLoggedIn /\ Token # Absent
      /\ savedAccount /\ notices = <<"account-saved">>
      /\ SidebarClick(ManualTradeButton)) => route' = "/manual-trade"]_vars

\* C12: when the account query of a logged-in layout answers has_config =
\* false, hasAccount is false and the marker is absent; a guarded navigation
\* to /manual-trade made while logged in with hasAccount false ends at
\* /account with the notice, not at /manual-trade.
C12_NoAccountRedirect ==
  [][/\ \A q \in BagToSet(net) : \A r \in Arrivals(q) :
          (q.op = "sync" /\ r.st = "ok" /\ ~r.val.has_config /\ Deliver(q, r)) =>
             /\ Marker' = Absent
             /\ r.live => ~hasAccount'
     /\ (isLoggedIn /\ ~hasAccount /\ SidebarClick(ManualTradeButton)) =>
          /\ route' = "/account"
          /\ notices' = <<"account-required">>]_vars

\* Logged in after a login, the account query answered without an account,
\* and the guard has just sent the user to the account screen.
C12_Witness ==
  /\ tree = "new" /\ route = "/account"
  /\ sessionLive /\ isLoggedIn /\ Token = TokenOf("u1")
  /\ ~hasAccount /\ Marker = Absent
  /\ ~InFlightLive(Cur, {"sync"})
  /\ notices = <<"account-required">>

----------------------------------------------------------------------------
(* Row classification: properties of SpecClassify.                         *)

\* C17: the class of a row depends on its action score alone: above 0.3 it
\* is BUY, below -0.3 it is SELL, anything else is HOLD, the scores 0.3 and
\* -0.3 themselves included; the reward plays no part.
C17_Classification ==
  (call.pc = "done" /\ call.fn = "classify") =>
    LET a == call.in.action
    IN /\ (a > 30) => call.out = "BUY"
       /\ (a < -30) => call.out = "SELL"
       /\ (a >= -30 /\ a <= 30) => call.out = "HOLD"
       /\ (a = 30 \/ a = -30) => call.out = "HOLD"

\* The boundary score 0.3 with a large reward was classified HOLD.
C17_Witness ==
  /\ call.pc = "done" /\ call.fn = "classify"
  /\ call.in.action = 30 /\ call.in.reward = 125
  /\ call.out = "HOLD"

----------------------------------------------------------------------------
(* Balance parsing: properties of SpecParse.                               *)

\* The raw object the parsing reads: data.raw || {} on the account screen,
\* data itself on the old Dashboard.
RawOf(c) ==
  IF c.tree = "new" /\ ~c.in.hasRaw
  THEN [output1 |-> MissingVal, output2 |-> MissingVal]
  ELSE [output1 |-> c.in.output1, output2 |-> c.in.output2]

\* C18 as stated: for every successful balance response the parsing does not
\* raise, holdings is output1 when that is an array and empty when it is
\* missing, summary is the first element of output2, and the empty record
\* {} when output2 is empty or missing.
C18_AsStated ==
  (call.pc = "done" /\ call.fn = "parse") =>
    LET raw == RawOf(call)
    IN /\ ~call.out.raised
       /\ isArray(raw.output1) => call.out.holdings = raw.output1.items
       /\ (raw.output1 = MissingVal) => call.out.holdings = <<>>
       /\ (isArray(raw.output2) /\ Len(raw.output2.items) > 0) =>
            call.out.summary = Elem(raw.output2.items[1])
       /\ (raw.output2 = MissingVal \/ raw.output2.items = <<>>) =>
            call.out.summary = EmptyObject

----------------------------------------------------------------------------
(* Shared client: properties of SpecGateway.                               *)

\* C20: a request sent through the shared client carries Authorization:
\* Bearer <token> exactly when a token is stored when it is sent (a value
\* the code takes for a token: not null, not empty), the token is the one
\* stored at that moment, the other headers are those of the caller, and
\* sending leaves localStorage as it was.
C20_TokenAttachment ==
  [][\A config \in Configs :
       GatewaySend(config) =>
         /\ call'.config.Authorization =
              IF Truthy(Token) THEN "Bearer " \o Token ELSE Absent
         /\ call'.config.XApiKey = config.XApiKey
         /\ call'.config.url = config.url
         /\ store' = store]_vars

\* A request carried the token stored after the client had been created
\* without one.
C20_Witness ==
  /\ call.pc = "sent" /\ call.fn = "send"
  /\ call.created = Absent
  /\ Token = TokenOf("u1")
  /\ call.config.Authorization = "Bearer " \o TokenOf("u1")

----------------------------------------------------------------------------
(* Auto-trade load: property of SpecTrade.                                 *)

\* C16: when the response to the GET /auto-trade/config request of the
\* mounted screen arrives, a failure leaves the mirror autoTradeEnabled
\* false whatever happened since the mount, and a success with a boolean
\* enabled value leaves the mirror equal to that value.
C16_AsStated ==
  [][\A q \in BagToSet(net) : \A r \in Arrivals(q) :
       (q.op = "loadCfg" /\ q.live /\ Deliver(q, r)) =>
          /\ r.st # "ok" => ~autoTradeEnabled'
          /\ (r.st = "ok" /\ r.val.isBool) => autoTradeEnabled' = r.val.enabled]_vars

----------------------------------------------------------------------------
(* Screens entered directly: properties of SpecPages and SpecOldCards.     *)

\* C13 as stated: a market order, an auto-trade execution or a risk-rule
\* save request is sent only in a state where a token is stored and the
\* layout holds hasAccount = true, also when the screen was entered by its
\* route.
C13_AsStated ==
  [][\A q \in BagToSet(net') :
       (q.op \in {"order", "run", "riskSave"} /\ CopiesIn(q, net') > CopiesIn(q, net))
         => (Token # Absent /\ hasAccount)]_vars

\* C14 as stated: when a read-model fetch of the mounted screen fails, the
\* read model shows after the failure what it showed when that fetch was
\* started.
C14_AsStated ==
  [][\A q \in BagToSet(net) : \A r \in Arrivals(q) :
       (q.live /\ r.st # "ok" /\ Deliver(q, r)) =>
          /\ q.op = "history" => page'.history = q.arg.shownHistory
          /\ q.op = "riskList" => page'.riskList = q.arg.shownRisk
          /\ q.op = "perf" => /\ page'.perf = q.arg.shownPerf
                              /\ page'.perfSnapshots = q.arg.shownSnapshots
          /\ q.op = "chart" => /\ page'.candles = q.arg.shownCandles
                               /\ page'.indicator = q.arg.shownIndicator
          /\ q.op = "balance" => page'.balanceParsed = q.arg.shownBalance]_vars

\* C14: when a read-model fetch (trade history, risk rules, performance
\* summary and snapshots, chart candles and indicator, balance) fails, its
\* handler leaves every read model as it was when the failure arrived: the
\* failure clears nothing, and what another fetch of the same read model
\* stored in the meantime stays.
C14_FailureKeepsValue ==
  [][\A q \in BagToSet(net) : \A r \in Arrivals(q) :
       (q.op \in {"history", "riskList", "perf", "chart", "balance"}
          /\ r.st # "ok" /\ Deliver(q, r)) =>
          /\ page'.history = page.history
          /\ page'.riskList = page.riskList
          /\ page'.perf = page.perf
          /\ page'.perfSnapshots = page.perfSnapshots
          /\ page'.candles = page.candles
          /\ page'.indicator = page.indicator
          /\ page'.balanceParsed = page.balanceParsed]_vars

\* A performance fetch failed on the auto-trade screen while the summary
\* and snapshots fetched earlier were shown: they are still shown.
C14_Witness ==
  /\ tree = "new" /\ route = "/trade"
  /\ notices = <<"perf-failed">>
  /\ page.perf \in Data
  /\ page.perfSnapshots = "s1"

\* C15 as stated: whenever a request to the backend fails, the handler that
\* awaits it shows the user a failure notice (an alert, or the status line
\* of the login form); console output is not shown to the user.
C15_AsStated ==
  [][\A q \in BagToSet(net) : \A r \in Arrivals(q) :
       (r.st # "ok" /\ Deliver(q, r)) =>
          \/ \E i \in DOMAIN notices' :
               notices'[i] \in {"account-save-failed", "auto-trade-load-failed",
                                "auto-trade-run-failed", "auto-trade-save-failed",
                                "balance-failed", "chart-failed", "history-failed",
                                "order-failed", "perf-failed", "risk-save-failed"}
          \/ q.op = "login" /\ loginStatus' = "login-failed"]_vars

\* C19 as stated: the handler of a successful market order sends a
\* trade-history fetch and the handler of a successful risk-rule save sends a
\* risk-list fetch; the handler of a failed order or failed risk save sends
\* no request.
C19_AsStated ==
  [][LET InFlight(b, op) ==
           BagCardinality([x \in {y \in BagToSet(b) : y.op = op} |-> b[x]])
         Follows(r, op) ==
           InFlight(net', op) = InFlight(net, op) + (IF r.st = "ok" THEN 1 ELSE 0)
     IN \A q \in BagToSet(net) : \A r \in Arrivals(q) :
          Deliver(q, r) =>
            /\ q.op = "order" => Follows(r, "history")
            /\ q.op = "riskSave" => Follows(r, "riskList")]_vars

----------------------------------------------------------------------------
(* Layout and session store under interleavings: properties of SpecSession. *)

\* C24: in every reachable state in which the layout is mounted,
\* hasAccount = true implies that a token is stored and that isLoggedIn (the
\* value the layout computed from the stored token at its last render) is
\* true.
C24_AccountImpliesSession ==
  (InLayout(Cur) /\ hasAccount) => (isLoggedIn /\ Truthy(store["stuckai_token"]))

\* The layout is mounted again, logged out, after a logout that left an
\* account query in flight; the answer of that query has arrived (it wrote
\* the marker) and hasAccount is false.
C24_Witness ==
  /\ InLayout(Cur) /\ ~isLoggedIn /\ ~hasAccount
  /\ store["stuckai_token"] = Absent
  /\ store["stuckai_account"] = "true"

\* C28 as stated, for the responses that arrive after a logout: when no
\* token is stored and the marker is absent, the response of an account query
\* that was sent with the token of the session since logged out leaves the
\* marker absent.
C28_AsStated ==
  [][\A q \in BagToSet(net) : \A r \in Arrivals(q) :
       (q.op \in {"sync", "loadAccount", "saveAccount"} /\ q.arg.token # Absent
          /\ Token = Absent /\ Marker = Absent /\ Deliver(q, r))
         => Marker' = Absent]_vars

----------------------------------------------------------------------------
(* Auto-trade mirror against the backend: properties of SpecTrade.         *)

\* C27 as stated: a click on the run button sends POST /trade/auto only
\* while the backend holds enabled = true.
C27_AsStated ==
  [][(RunAutoTradeClick /\ net' # net) => srvEnabled]_vars

\* C25 as stated: on the auto-trade screen, when toggles overlapped (one was
\* invoked while the PUT of another was in flight) and every PUT has been
\* resolved, the mirror equals the enabled value the backend holds.
C25_AsStated ==
  (OnTradeScreen /\ raced /\ net = EmptyBag) => autoTradeEnabled = srvEnabled

\* C26 as stated: on the auto-trade screen, when a toggle invoked while the
\* load of the screen was in flight has been confirmed, the mirror equals
\* the value the backend holds and no other request of the screen is in
\* flight, the response of the load leaves the mirror equal to the value
\* the backend holds.
C26_AsStated ==
  [][\A q \in BagToSet(net) : \A r \in Arrivals(q) :
       (/\ q.op = "loadCfg" /\ q.live
        /\ OnTradeScreen /\ raced
        /\ ~InFlightLive(Cur, {"toggle"})
        /\ confirmed = BoolStr(srvEnabled) /\ autoTradeEnabled = srvEnabled
        /\ Deliver(q, r))
         => autoTradeEnabled' = srvEnabled']_vars

----------------------------------------------------------------------------
(* Manual-trade screen: properties of SpecPages.                           *)

OnManualTrade == tree = "new" /\ route = "/manual-trade"

\* C29: on the manual-trade screen, sendOrder with an empty instrument code
\* sends nothing and changes neither the screen's state nor the store (it
\* only alerts); with a code it sets sending and sends one POST
\* /orders/market; sending is true exactly while an order request of the
\* mounted screen is in flight, so that at most one such request is in
\* flight at any time.
C29_SendingFlag ==
  /\ [](OnManualTrade =>
          /\ page.sending <=> InFlightLive(Cur, {"order"})
          /\ \A q \in BagToSet(net) : (q.op = "order" /\ q.live) => CopiesIn(q, net) = 1
          /\ \A q1, q2 \in BagToSet(net) :
               (q1.op = "order" /\ q2.op = "order" /\ q1.live /\ q2.live) => q1 = q2)
  /\ [][\A stock \in {"", "005930"} :
          (OnManualTrade /\ ~page.sending /\ Apply(sendOrder(Cur, stock))) =>
             IF stock = ""
             THEN /\ net' = net /\ page' = page /\ store' = store
                  /\ notices' = <<"order-stock-required">>
             ELSE /\ page'.sending
                  /\ net' = net (+) SetToBag({Req("order", [stock |-> stock])})]_vars

\* An order was refused by the backend: the flag is down again, nothing of
\* the order is in flight, and the error body is shown.
C29_Witness ==
  /\ OnManualTrade
  /\ notices = <<"order-failed">>
  /\ page.orderResult = "e1"
  /\ ~page.sending
  /\ ~InFlightLive(Cur, {"order"})

\* C30 as stated: on the manual-trade screen, loadingHistory is true exactly
\* when a trade-history request of the mounted screen is in flight.
C30_AsStated ==
  OnManualTrade => (page.loadingHistory <=> InFlightLive(Cur, {"history"}))

----------------------------------------------------------------------------
(* Read models under overlapping fetches: properties of SpecPages.         *)

\* C23: whenever a fetch of a read model succeeds on the mounted screen, the
\* read model shows the value of that response, whatever was shown before
\* and whatever other fetches of the same read model are in flight or have
\* been answered since it was sent: of two overlapping fetches that both
\* succeed, the response that arrives last is the one shown once both have
\* resolved.
C23_LastArrivalWins ==
  [][\A q \in BagToSet(net) : \A r \in Arrivals(q) :
       (q.live /\ r.st = "ok" /\ Deliver(q, r)) =>
          /\ q.op = "perf" =>
               /\ page'.perf = r.val.summary
               /\ page'.perfSnapshots =
                    (IF r.val.snapshots = Absent THEN "[]" ELSE r.val.snapshots)
          /\ q.op = "history" =>
               page'.history = (IF r.val.data = Absent THEN "[]" ELSE r.val.data)
          /\ q.op = "riskList" => page'.riskList = r.val.data
          /\ q.op = "chart" =>
               /\ page'.candles = (IF r.val.candles = Absent THEN "[]" ELSE r.val.candles)
               /\ page'.indicator = r.val.indicator]_vars

\* Two performance fetches overlapped on the auto-trade screen: the answer
\* of one (with snapshots) is shown while the other, sent when nothing was
\* shown yet, is still in flight; its answer will replace what is shown.
C23_Witness ==
  /\ tree = "new" /\ route = "/trade"
  /\ page.perf \in Data /\ page.perfSnapshots = "s1"
  /\ \E q \in BagToSet(net) :
       q.op = "perf" /\ q.live /\ q.arg.shownPerf = Absent

\* C22 as stated: when one load of the new Dashboard gets its chart
\* answered and its indicator request fails, the candles are replaced by
\* the fetched ones and the indicator stays; when the chart request fails
\* and the indicator is answered, the indicator is replaced and the candles
\* stay.
C22_AsStated ==
  [][\A q \in BagToSet(net) : \A r \in Arrivals(q) :
       (q.op = "chart" /\ q.live /\ r.st # "ok" /\ Deliver(q, r)) =>
          /\ r.val.failed = "indicator" =>
               /\ page'.candles = (IF r.val.candles = Absent THEN "[]" ELSE r.val.candles)
               /\ page'.indicator = page.indicator
          /\ r.val.failed = "candles" =>
               /\ page'.indicator = r.val.indicator
               /\ page'.candles = page.candles]_vars

----------------------------------------------------------------------------
(* The persisted marker is never read: property of SpecSession.            *)

\* C21: in every reachable state, the same state with the other value of
\* the persisted stuckai_account marker gives, for every sidebar button, the
\* same guard decision (notices, navigation, route), and every handler and
\* response continuation gives the same result apart from the marker
\* itself.  Hence two runs that differ only in the initial marker and see
\* the same user actions and responses agree step by step on everything but
\* the marker, and on every guard decision.
C21_MarkerAdvisory ==
  LET Flip(c) == [c EXCEPT !.store["stuckai_account"] =
                            IF @ = Absent THEN "true" ELSE Absent]
      Proj(c) == [c EXCEPT !.store["stuckai_account"] = Absent]
      Same(h(_)) == Proj(h(Flip(Cur))) = Proj(h(Cur))
      Guarded(b) ==
        LET h(c) == guardedNavigate(c, b.path, b.requireLogin, b.requireAccount)
        IN Same(h)
      Resumed(q, r) ==
        LET h(c) == Resume([c EXCEPT !.net = @ (-) SetToBag({q})], r) IN Same(h)
      Booted(path) ==
        LET h(c) == Boot(c.tree, c.store, c.sessionLive, path) IN Same(h)
      Navigated(path) == LET h(c) == navigate(c, path) IN Same(h)
      Submitted(u, pw) == LET h(c) == handleSubmit(c, u, pw) IN Same(h)
      Signed(form) == LET h(c) == signupHandleSubmit(c, form) IN Same(h)
  IN /\ \A b \in SidebarButtons : Guarded(b)
     /\ \A q \in BagToSet(net) : \A r \in Arrivals(q) : Resumed(q, r)
     /\ \A path \in RoutesOf(tree) : Booted(path) /\ Navigated(path)
     /\ \A u \in Usernames, pw \in Passwords : Submitted(u, pw)
     /\ \A form \in SignupForms : Signed(form)
     /\ Same(layoutLogout) /\ Same(logoutUser) /\ Same(oldLogout)
     /\ Same(saveAccount)

\* Logged in again after a logout that left the marker behind: the marker
\* says "true", the layout holds hasAccount = false, and the guard has just
\* sent the user to the account screen.
C21_Witness ==
  /\ tree = "new" /\ route = "/account"
  /\ isLoggedIn /\ ~hasAccount
  /\ Marker = "true"
  /\ notices = <<"account-required">>
====
